---- MODULE Spec2Model ----
(***************************************************************************)
(* Model of kelly_finite.py: the finite-horizon Kelly betting Monte Carlo  *)
(* (simulate_kelly_distribution), the closed-form kelly_fraction and the   *)
(* main loop over N_LIST.                                                   *)
(*                                                                          *)
(* Numbers are exact rationals <<num, den>> (den > 0, lowest terms): the   *)
(* rounding of IEEE doubles is not modelled.  The process-wide generator   *)
(* of numpy.random is a deterministic generator with a hidden state: a     *)
(* small linear congruential generator stands in for it.                   *)
(***************************************************************************)
EXTENDS Integers, Sequences, FiniteSets, TLC

\* ------------------------------------------------------------------ bounds
\* largest number of coin tosses n of a call
MaxN == 2
\* largest number of Monte Carlo paths T per fraction
MaxT == 2
\* largest length of f_values
MaxF == 2
\* largest length of N_LIST in the main loop
MaxCalls == 3

\* ------------------------------------------------------- exact arithmetic
Abs(x) == IF x < 0 THEN -x ELSE x

RECURSIVE GCD(_, _)
GCD(x, y) == IF y = 0 THEN x ELSE GCD(y, x % y)

\* the rational n/d in lowest terms, d # 0
Rat(n, d) ==
    LET g == GCD(Abs(n), Abs(d))
        s == IF d < 0 THEN -1 ELSE 1
    IN  <<(s * n) \div g, (s * d) \div g>>

RInt(k) == <<k, 1>>
RAdd(x, y) == Rat(x[1] * y[2] + y[1] * x[2], x[2] * y[2])
RSub(x, y) == Rat(x[1] * y[2] - y[1] * x[2], x[2] * y[2])
RMul(x, y) == Rat(x[1] * y[1], x[2] * y[2])
RDiv(x, y) == Rat(x[1] * y[2], x[2] * y[1])
RLt(x, y) == x[1] * y[2] < y[1] * x[2]
RLe(x, y) == x[1] * y[2] <= y[1] * x[2]
RIsInt(x) == x[2] = 1

\* floor of a rational (TLA+ \div rounds toward minus infinity)
RFloor(x) == x[1] \div x[2]

\* C cast of a double to an integer: truncation toward zero
RTrunc(x) == IF x[1] >= 0 THEN x[1] \div x[2] ELSE -((-x[1]) \div x[2])

RECURSIVE RPow(_, _)
RPow(x, k) == IF k = 0 THEN RInt(1) ELSE RMul(x, RPow(x, k - 1))

\* ------------------------------------------------------ program constants
\* SEED = 42
SEED == 42
\* P = 0.55, a = 0.85, b = 0.65
P == <<11, 20>>
a0 == <<17, 20>>
b0 == <<13, 20>>
\* F_VALUES = np.linspace(0, 0.8, 51): entry j (0-based) is 0.8 * j / 50
FGrid(j) == Rat(8 * (j - 1), 500)
F_VALUES == [j \in 1..51 |-> FGrid(j)]

\* ------------------------------------------------------------ numpy arrays
\* an ndarray: its dtype and its elements
Array(dt, xs) == [dtype |-> dt, data |-> xs]

\* storing a double into an array casts it to the array's dtype
Cast(dt, x) == IF dt = "int64" THEN RInt(RTrunc(x)) ELSE x

\* arr[j] = x
SetItem(arr, j, x) == [arr EXCEPT !.data[j] = Cast(arr.dtype, x)]

\* np.zeros_like(arr): a new array of zeros with the shape and dtype of arr
zeros_like(arr) == Array(arr.dtype, [j \in 1..Len(arr.data) |-> RInt(0)])

\* np.zeros(T): a new float64 array of T zeros
zeros(k) == Array("float64", [j \in 1..k |-> RInt(0)])

RECURSIVE Insert(_, _)
Insert(s, x) ==
    IF s = <<>> THEN <<x>>
    ELSE IF RLe(x, s[1]) THEN <<x>> \o s
    ELSE <<s[1]>> \o Insert(Tail(s), x)

RECURSIVE Sort(_)
Sort(s) == IF s = <<>> THEN <<>> ELSE Insert(Sort(Tail(s)), s[1])

\* percentile without the sort of the data (faulty variant)
percentileUnsorted(xs, q) ==
    LET m   == Len(xs)
        pos == Rat(q * (m - 1), 100)
        lo  == RFloor(pos)
        g   == RSub(pos, RInt(lo))
    IN  IF lo + 1 >= m THEN xs[m]
        ELSE RAdd(xs[lo + 1], RMul(g, RSub(xs[lo + 2], xs[lo + 1])))

\* np.percentile(xs, q), linear interpolation between the two nearest ranks
percentile(xs, q) ==
    LET s   == Sort(xs)
        m   == Len(xs)
        pos == Rat(q * (m - 1), 100)
        lo  == RFloor(pos)
        g   == RSub(pos, RInt(lo))
    IN  IF lo + 1 >= m THEN s[m]
        ELSE RAdd(s[lo + 1], RMul(g, RSub(s[lo + 2], s[lo + 1])))

\* (percentile(q1) + percentile(q2) + percentile(q3)) / 3
Mean3(xs, q1, q2, q3) ==
    RDiv(RAdd(RAdd(percentile(xs, q1), percentile(xs, q2)), percentile(xs, q3)),
         RInt(3))

LowStat(xs) == Mean3(xs, 5, 10, 15)
MidStat(xs) == Mean3(xs, 45, 50, 55)
HighStat(xs) == Mean3(xs, 85, 90, 95)

\* ------------------------------------------------- process-wide generator
\* np.random.seed(s): the generator's state is a function of the seed alone
SeedState(s) == s % 16

\* the seed argument ignored: the generator is never reseeded (faulty variant)
SeededNever(g, seed) == g

\* np.random.seed(random_seed) without the None test: None reseeds the
\* generator afresh (faulty variant)
SeededAlways(g, seed) == IF seed = <<>> THEN (g + 7) % 16 ELSE SeedState(seed[1])

\* if random_seed is not None: np.random.seed(random_seed)
\* (random_seed is <<>> for None and <<s>> for the seed s)
Seeded(g, seed) == IF seed = <<>> THEN g ELSE SeedState(seed[1])

\* np.random.rand(): the generator steps, and the new state gives a value in [0, 1)
NextState(g) == (5 * g + 1) % 16
RandValue(g) == Rat(g, 16)

\* ---------------------------------------------------------- the wealth update
\* the win update without the fraction: w *= (1 + a) (faulty variant)
WinFactorNoF(aa, f) == RAdd(RInt(1), aa)

\* the loss update with the wrong sign: w *= (1 + b * f) (faulty variant)
LoseFactorPlus(bb, f) == RAdd(RInt(1), RMul(bb, f))

\* w *= (1 + a * f)
WinFactor(aa, f) == RAdd(RInt(1), RMul(aa, f))
\* w *= (1 - b * f)
LoseFactor(bb, f) == RSub(RInt(1), RMul(bb, f))

\* the win and loss coefficients exchanged in the numerator (faulty variant)
kelly_fraction_swapped(pp, aa, bb) ==
    RDiv(RSub(RMul(pp, bb), RMul(RSub(RInt(1), pp), aa)), RMul(aa, bb))

\* the numerator's parentheses lost: p * a - (1 - p) * b / (a * b) (faulty variant)
kelly_fraction_noparen(pp, aa, bb) ==
    RSub(RMul(pp, aa), RDiv(RMul(RSub(RInt(1), pp), bb), RMul(aa, bb)))

\* f_k = (p * a - (1 - p) * b) / (a * b)
kelly_fraction(pp, aa, bb) ==
    RDiv(RSub(RMul(pp, aa), RMul(RSub(RInt(1), pp), bb)), RMul(aa, bb))

\* return f_values, p10_wealths, p50_wealths, p90_wealths
ReturnValue(fv, lo, mid, hi) == <<fv, lo, mid, hi>>

\* ------------------------------------------------------------------ state
VARIABLES
    N_LIST,        \* the main loop's list of n
    ni,            \* position of the main loop in N_LIST (1-based)
    n, p, T, f_values, a, b, random_seed,   \* the arguments of the call
    rng,           \* state of the process-wide generator
    pc,            \* where the program is
    i, t, r,       \* loop counters: fraction, trial, round (1-based / rounds done)
    w,             \* running wealth of the current trial
    final_wealth, p10_wealths, p50_wealths, p90_wealths,
    ret,           \* the value returned by the last call (<<>> before any return)
    results,       \* history: <<n, returned value>> of every completed call
    f_kelly,       \* plot_kelly_results' f_kelly (<<>> before it is computed)
    err,           \* the exception that ended the program ("none" if none)
    consumed,      \* history: draws taken from the generator since the call began
    wins,          \* history: winning draws of the current trial
    kLog           \* history: kLog[j][s] = winning draws of trial s of fraction j

vars == <<N_LIST, ni, n, p, T, f_values, a, b, random_seed, rng, pc, i, t, r, w,
          final_wealth, p10_wealths, p50_wealths, p90_wealths, ret, results,
          f_kelly, err, consumed, wins, kLog>>

args == <<N_LIST, p, T, f_values, a, b, random_seed>>
locals == <<i, t, r, w, final_wealth, p10_wealths, p50_wealths, p90_wealths>>
hist == <<consumed, wins, kLog>>

\* ------------------------------------------------------------ input domains
Seqs(S, k) == UNION {[1..m -> S] : m \in 0..k}
\* the sequences of at most k distinct elements of S
Distinct(S, k) ==
    {s \in Seqs(S, k) : \A x, y \in 1..Len(s) : x # y => s[x] # s[y]}

NVals == 0..MaxN
\* T = 0 is left out: np.percentile of an empty array is not modelled
TVals == {-1} \cup (1..MaxT)
PVals == {<<1, 2>>, <<3, 2>>}
AVals == {RInt(-1), RInt(1)}
BVals == {<<1, 2>>, RInt(2)}
FVals == {RInt(0), <<1, 2>>, RInt(1)}
SeedVals == {<<>>, <<SEED>>}
RngStates == 0..15

\* f_values: distinct candidate fractions in any order, as a float array, or
\* as an integer array when every entry is an integer
FArrays ==
    {Array("float64", xs) : xs \in Distinct(FVals, MaxF)}
    \cup {Array("int64", xs) : xs \in Distinct({x \in FVals : RIsInt(x)}, MaxF) \ {<<>>}}

NoArray == Array("float64", <<>>)

\* the state before main starts: nothing called, no local bound
Idle ==
    /\ ni = 1 /\ n = 0 /\ pc = "main"
    /\ i = 0 /\ t = 0 /\ r = 0 /\ w = RInt(0)
    /\ final_wealth = NoArray /\ p10_wealths = NoArray
    /\ p50_wealths = NoArray /\ p90_wealths = NoArray
    /\ ret = <<>> /\ results = <<>> /\ f_kelly = <<>> /\ err = "none"
    /\ consumed = 0 /\ wins = 0 /\ kLog = <<>>

\* one call of simulate_kelly_distribution with any arguments
Init ==
    /\ N_LIST \in {<<k>> : k \in NVals}
    /\ p \in PVals /\ T \in TVals /\ a \in AVals /\ b \in BVals
    /\ f_values \in FArrays
    /\ random_seed \in SeedVals
    /\ rng \in RngStates
    /\ Idle

\* ---------------------------------------------------------------- actions
\* main: for n in N_LIST: simulate_kelly_distribution(n=n, ...) -- the call,
\* the seeding and the three result arrays (lines 81-86)
Call ==
    /\ pc = "main" /\ ni <= Len(N_LIST)
    /\ n' = N_LIST[ni]
    /\ rng' = Seeded(rng, random_seed)
    /\ p10_wealths' = zeros_like(f_values)
    /\ p50_wealths' = zeros_like(f_values)
    /\ p90_wealths' = zeros_like(f_values)
    /\ i' = 1 /\ pc' = "fraction"
    /\ consumed' = 0 /\ wins' = 0 /\ kLog' = <<>>
    /\ UNCHANGED <<args, ni, t, r, w, final_wealth, ret, results, f_kelly, err>>

\* for i, f in enumerate(f_values): final_wealth = np.zeros(T)
\* (np.zeros raises ValueError for a negative T)
BeginFraction ==
    /\ pc = "fraction" /\ i <= Len(f_values.data)
    /\ IF T < 0
       THEN /\ pc' = "raised" /\ err' = "ValueError"
            /\ UNCHANGED <<final_wealth, t, kLog>>
       ELSE /\ final_wealth' = zeros(T)
            /\ t' = 1 /\ pc' = "trial"
            /\ kLog' = Append(kLog, <<>>)
            /\ UNCHANGED err
    /\ UNCHANGED <<args, ni, n, rng, i, r, w, p10_wealths, p50_wealths,
                   p90_wealths, ret, results, f_kelly, consumed, wins>>

\* for t in range(T): w = 1.0
BeginTrial ==
    /\ pc = "trial" /\ t <= T
    /\ w' = RInt(1) /\ r' = 0 /\ wins' = 0
    /\ pc' = "round"
    /\ UNCHANGED <<args, ni, n, rng, i, t, final_wealth, p10_wealths, p50_wealths,
                   p90_wealths, ret, results, f_kelly, err, consumed, kLog>>

\* for _ in range(n): one coin toss and the wealth update
Round ==
    /\ pc = "round" /\ r < n
    /\ rng' = NextState(rng)
    /\ LET u == RandValue(rng')
           f == f_values.data[i]
       IN  IF RLt(u, p)
           THEN /\ w' = RMul(w, WinFactor(a, f)) /\ wins' = wins + 1
           ELSE /\ w' = RMul(w, LoseFactor(b, f)) /\ wins' = wins
    /\ r' = r + 1
    /\ consumed' = consumed + 1
    /\ UNCHANGED <<args, ni, n, pc, i, t, final_wealth, p10_wealths, p50_wealths,
                   p90_wealths, ret, results, f_kelly, err, kLog>>

\* final_wealth[t] = w
EndTrial ==
    /\ pc = "round" /\ r >= n
    /\ final_wealth' = SetItem(final_wealth, t, w)
    /\ kLog' = [kLog EXCEPT ![i] = Append(@, wins)]
    /\ t' = t + 1 /\ pc' = "trial"
    /\ UNCHANGED <<args, ni, n, rng, i, r, w, p10_wealths, p50_wealths,
                   p90_wealths, ret, results, f_kelly, err, consumed, wins>>

\* the three statistics of the fraction (lines 102-110)
Percentiles ==
    /\ pc = "trial" /\ t > T
    /\ p10_wealths' = SetItem(p10_wealths, i, LowStat(final_wealth.data))
    /\ p50_wealths' = SetItem(p50_wealths, i, MidStat(final_wealth.data))
    /\ p90_wealths' = SetItem(p90_wealths, i, HighStat(final_wealth.data))
    /\ i' = i + 1 /\ pc' = "fraction"
    /\ UNCHANGED <<args, ni, n, rng, t, r, w, final_wealth, ret, results,
                   f_kelly, err, hist>>

\* return f_values, p10_wealths, p50_wealths, p90_wealths
Return ==
    /\ pc = "fraction" /\ i > Len(f_values.data)
    /\ ret' = ReturnValue(f_values, p10_wealths, p50_wealths, p90_wealths)
    /\ results' = Append(results, <<n, ret'>>)
    /\ pc' = "plot"
    /\ UNCHANGED <<args, ni, n, rng, locals, f_kelly, err, hist>>

\* plot_kelly_results(...): f_kelly = kelly_fraction(p, a, b)
\* (a float division by zero raises ZeroDivisionError); then the next n
Plot ==
    /\ pc = "plot"
    /\ IF RMul(a, b) = RInt(0)
       THEN /\ pc' = "raised" /\ err' = "ZeroDivisionError"
            /\ UNCHANGED <<f_kelly, ni>>
       ELSE /\ f_kelly' = kelly_fraction(p, a, b)
            /\ ni' = ni + 1 /\ pc' = "main"
            /\ UNCHANGED err
    /\ UNCHANGED <<args, n, rng, locals, ret, results, hist>>

\* the main loop is over
Finish ==
    /\ pc = "main" /\ ni > Len(N_LIST)
    /\ pc' = "done"
    /\ UNCHANGED <<args, ni, n, rng, locals, ret, results, f_kelly, err, hist>>

Next ==
    \/ Call
    \/ BeginFraction
    \/ BeginTrial
    \/ Round
    \/ EndTrial
    \/ Percentiles
    \/ Return
    \/ Plot
    \/ Finish

Spec == Init /\ [][Next]_vars

\* --------------------------------------------------- the main loop over N_LIST
\* the script's main: several calls, one per n of N_LIST, with the same
\* scenario, trial count and seed, all drawing from the process-wide generator
InitMain ==
    /\ N_LIST \in Seqs(1..MaxN, MaxCalls) \ {<<>>}
    /\ p = <<1, 2>> /\ a = RInt(1) /\ b = <<1, 2>>
    /\ T \in 1..MaxT
    /\ f_values \in {Array("float64", <<RInt(0), <<1, 2>>>>),
                     Array("float64", <<RInt(1)>>)}
    /\ random_seed \in SeedVals
    /\ rng \in RngStates
    /\ Idle

SpecMain == InitMain /\ [][Next]_vars

\* ------------------------------------------------ kelly_fraction on its own
KPVals == {RInt(0), <<1, 2>>, P, <<7, 10>>, RInt(1)}
KAVals == {RInt(-1), RInt(0), a0, RInt(1), <<3, 2>>}
KBVals == {RInt(0), <<1, 2>>, b0, <<19, 20>>, RInt(1)}

\* plot_kelly_results has just been called with (p, a, b)
InitKelly ==
    /\ p \in KPVals /\ a \in KAVals /\ b \in KBVals
    /\ N_LIST = <<1>> /\ T = 1 /\ f_values = NoArray /\ random_seed = <<>>
    /\ rng = 0
    /\ ni = 1 /\ n = 1 /\ pc = "plot"
    /\ i = 1 /\ t = 0 /\ r = 0 /\ w = RInt(0)
    /\ final_wealth = NoArray /\ p10_wealths = NoArray
    /\ p50_wealths = NoArray /\ p90_wealths = NoArray
    /\ ret = ReturnValue(NoArray, NoArray, NoArray, NoArray)
    /\ results = <<<<1, ret>>>> /\ f_kelly = <<>> /\ err = "none"
    /\ consumed = 0 /\ wins = 0 /\ kLog = <<>>

SpecKelly == InitKelly /\ [][Plot]_vars

\* ------------------------------------------------------------------ claims
\* the call has begun (its arrays exist)
Called == pc # "main" \/ results # <<>>
\* the fractions whose statistics have been stored
Stored == {j \in 1..Len(p10_wealths.data) : j < i}
\* the trials of the current fraction whose final wealth has been stored
DoneTrials == {s \in 1..Len(final_wealth.data) : s < t}
Frac(j) == f_values.data[j]
IsOne(x) == x = RInt(1)
Positive(x) == RLt(RInt(0), x)

\* the spec's InvalidFraction condition: b * f >= 1
InvalidFraction(f) == RLe(RInt(1), RMul(b, f))
\* the spec's InvalidScenario condition
InvalidScenario ==
    \/ n <= 0 \/ T <= 0
    \/ ~Positive(a) \/ ~Positive(b)
    \/ RLt(p, RInt(0)) \/ RLt(RInt(1), p)

\* C1: a fraction f with b*f >= 1 makes the call raise InvalidFraction before
\* any trial of that fraction executes (no draw, no wealth update), and no
\* statistics are returned.  (The program has no InvalidFraction to raise: the
\* formula states what follows from raising in time, for a scenario that is
\* well-formed otherwise.)
C1_InvalidFractionRaises ==
    (Called /\ ~InvalidScenario) =>
        /\ (pc = "round" => ~InvalidFraction(Frac(i)))
        /\ (ret # <<>> => \A j \in 1..Len(f_values.data) : ~InvalidFraction(Frac(j)))

\* C2: a malformed scenario (n <= 0, T <= 0, a <= 0, b <= 0, p outside [0,1])
\* makes the call fail with InvalidScenario, and no result table is returned.
\* (The program has no InvalidScenario to raise: the formula states that no
\* table is returned, for a call with at least one fraction.)
C2_InvalidScenarioRaises ==
    (Called /\ InvalidScenario /\ Len(f_values.data) > 0) => ret = <<>>

\* C3: for f = 0 the running wealth is exactly 1 after every round of every
\* trial, every final wealth is 1 and the three statistics stored and returned
\* for that fraction are 1.
C3_ZeroFractionWealthOne ==
    /\ (pc \in {"trial", "round"} /\ Frac(i) = RInt(0)) =>
          /\ (pc = "round" => IsOne(w))
          /\ \A s \in DoneTrials : IsOne(final_wealth.data[s])
    /\ \A j \in Stored : Frac(j) = RInt(0) =>
          /\ IsOne(p10_wealths.data[j])
          /\ IsOne(p50_wealths.data[j])
          /\ IsOne(p90_wealths.data[j])
    /\ ret # <<>> => \A j \in 1..Len(f_values.data) : Frac(j) = RInt(0) =>
          /\ IsOne(ret[2].data[j]) /\ IsOne(ret[3].data[j]) /\ IsOne(ret[4].data[j])

\* a call returned whose fraction 0 saw wins and losses in one trial
C3_Witness ==
    /\ ret # <<>> /\ n >= 2 /\ T >= 2
    /\ \E j \in 1..Len(f_values.data) :
          /\ Frac(j) = RInt(0)
          /\ \E s \in 1..T : kLog[j][s] > 0 /\ kLog[j][s] < n

\* C4: with a seed given, two runs of the main loop with the same n (hence the
\* same scenario, trial count and seed) return identical result tables,
\* whatever was drawn from the process-wide generator before each of them.
C4_SeededRunsAgree ==
    random_seed # <<>> =>
        \A x, y \in 1..Len(results) :
            results[x][1] = results[y][1] => results[x][2] = results[y][2]

\* two runs with the same n, with a run for another n between them
C4_Witness ==
    /\ random_seed # <<>> /\ Len(results) >= 3
    /\ results[1][1] = results[3][1] /\ results[1][1] # results[2][1]
    /\ results[1][2] = results[3][2]
    /\ \E j \in 1..Len(f_values.data) : results[1][2][2].data[j] # results[1][2][4].data[j]

\* x rounded to four decimal places, as an integer number of ten-thousandths
Round4(x) == RFloor(RAdd(RMul(x, RInt(10000)), <<1, 2>>))
Configured == p = P /\ a = a0 /\ b = b0

\* C5 (as stated): for p = 0.55, a = 0.85, b = 0.65 kelly_fraction is 0.1925
\* to four decimal places.
C5_KellyIs1925 ==
    (f_kelly # <<>> /\ Configured) => Round4(f_kelly) = 1925

\* C5 (amended): for p = 0.55, a = 0.85, b = 0.65 kelly_fraction is 70/221,
\* which is 0.3167 to four decimal places.
C5_KellyIs3167 ==
    (f_kelly # <<>> /\ Configured) =>
        /\ f_kelly = <<70, 221>>
        /\ Round4(f_kelly) = 3167

\* kelly_fraction has been computed for the configured constants
C5_Witness == f_kelly # <<>> /\ Configured /\ pc = "main"

\* C6: whenever a*b # 0, the value f* of kelly_fraction(p, a, b) satisfies
\* p*a - (1-p)*b = f* * a * b exactly.
C6_KellyIdentity ==
    (f_kelly # <<>> /\ RMul(a, b) # RInt(0)) =>
        RSub(RMul(p, a), RMul(RSub(RInt(1), p), b)) = RMul(RMul(f_kelly, a), b)

\* kelly_fraction has returned a non-zero, non-integer fraction
C6_Witness ==
    /\ f_kelly # <<>> /\ ~RIsInt(f_kelly)
    /\ p \notin {RInt(0), RInt(1)} /\ a # RInt(1) /\ b # RInt(1)

\* what the caller can see besides the generator: the arguments are unchanged
\* and the first returned value is the caller's f_values
FrameStep ==
    /\ args' = args
    /\ (ret' # ret => ret'[1] = f_values)

\* C7 (as stated): the call changes nothing but the generator, and changes the
\* generator only by consuming draws from it.
C7_OnlyDrawsChangeGenerator ==
    [][/\ FrameStep
       /\ (rng' # rng => consumed' = consumed + 1 /\ rng' = NextState(rng))]_vars

\* C7 (amended): the call changes nothing but the generator, and changes the
\* generator only by consuming draws from it or, when random_seed is not None,
\* by reseeding it with random_seed as the call begins.
C7_OnlyDrawsOrReseed ==
    [][/\ FrameStep
       /\ (rng' # rng =>
             \/ consumed' = consumed + 1 /\ rng' = NextState(rng)
             \/ /\ pc = "main" /\ pc' = "fraction" /\ random_seed # <<>>
                /\ rng' = SeedState(random_seed[1]))]_vars

\* a seeded call returned after drawing, and left the generator in another
\* state than the seed's
C7_Witness ==
    /\ ret # <<>> /\ random_seed # <<>> /\ consumed > 0
    /\ ret[1] = f_values /\ Len(f_values.data) > 0
    /\ rng # SeedState(random_seed[1])

\* (1 + a*f)^k * (1 - b*f)^(m-k), written out from the claim
ClosedForm(f, k, m) ==
    RMul(RPow(RAdd(RInt(1), RMul(a, f)), k),
         RPow(RSub(RInt(1), RMul(b, f)), m - k))

\* the draws taken when trial t of fraction i is about to start
DrawsBefore == ((i - 1) * T + (t - 1)) * n

\* C8: every trial starts from wealth 1, consumes exactly n draws, and its
\* final wealth is (1 + a*f)^k * (1 - b*f)^(n-k) for its k winning draws.
C8_TrialClosedForm ==
    /\ pc = "round" =>
          /\ wins <= r /\ r <= n
          /\ w = ClosedForm(Frac(i), wins, r)
          /\ consumed = DrawsBefore + r
    /\ pc = "trial" => consumed = DrawsBefore
    /\ pc \in {"trial", "round"} =>
          \A s \in DoneTrials :
              final_wealth.data[s] = ClosedForm(Frac(i), kLog[i][s], n)

\* the trials of a second fraction f # 0 are over, one of them with wins and
\* losses
C8_Witness ==
    /\ pc = "trial" /\ t > T /\ T >= 2 /\ n >= 2 /\ i >= 2
    /\ Frac(i) # RInt(0)
    /\ \E s \in 1..T : kLog[i][s] > 0 /\ kLog[i][s] < n
    /\ \E s \in 1..T : ~IsOne(final_wealth.data[s])

\* the precondition of C9
ValidFractions ==
    /\ Positive(a) /\ Positive(b)
    /\ \A j \in 1..Len(f_values.data) :
          RLe(RInt(0), Frac(j)) /\ RLt(RMul(b, Frac(j)), RInt(1))

\* the configured constants meet the precondition (a fact about constants,
\* looked at before the first call only)
GridValid ==
    /\ Positive(a0) /\ Positive(b0)
    /\ \A j \in 1..51 :
          \* 0 <= 8(j-1)/500 and b0 * 8(j-1)/500 < 1, cross-multiplied
          /\ 0 <= 8 * (j - 1)
          /\ b0[1] * 8 * (j - 1) < b0[2] * 500

\* C9: if a > 0, b > 0 and every fraction has 0 <= f and b*f < 1, the running
\* wealth, every final wealth and every returned statistic are strictly
\* positive; the configured grid F_VALUES with b = 0.65 meets the precondition.
C9_WealthAndStatisticsPositive ==
    /\ ValidFractions =>
          /\ (pc = "round" => Positive(w))
          /\ (pc \in {"trial", "round"} =>
                \A s \in DoneTrials : Positive(final_wealth.data[s]))
          /\ \A j \in Stored :
                /\ Positive(p10_wealths.data[j])
                /\ Positive(p50_wealths.data[j])
                /\ Positive(p90_wealths.data[j])
    /\ pc = "main" => GridValid

\* the final wealths of fraction j, rebuilt from its trials' winning draws
FinalWealths(j) == [s \in 1..T |-> ClosedForm(Frac(j), kLog[j][s], n)]

====
